---- MODULE Spec2Model ----
(***************************************************************************)
(* Model of the bulk-download server (src/main.go): handleFileUpload       *)
(* builds a ZIP archive in a scratch file and publishes it in              *)
(* tempFileStore under a generated name; handleDownload claims a name,     *)
(* streams the scratch file and removes it.  Handlers run concurrently,    *)
(* one goroutine per request; tempFileStore is guarded by storeMutex.      *)
(***************************************************************************)
EXTENDS Integers, Sequences, FiniteSets, TLC

(* ---------------------------- bounds ----------------------------------- *)
\* largest number of files in one multipart form
MaxEntries == 2
\* the wall clock runs through the seconds 0 to MaxClock
MaxClock == 1
\* number of scratch file names the temp directory can hold
NumPaths == 2
\* largest number of files in a form sent to handleFilename
MaxFiles == 8

(* --------------------------- constants --------------------------------- *)
\* 100*1024*1024, the total size limit of handleFileUpload
SizeLimit == 104857600

StatusOK == 200
StatusBadRequest == 400
StatusNotFound == 404
StatusInternalServerError == 500

(* ---------------------------- universe --------------------------------- *)
Uploads == {"u1", "u2"}
Downloads == {"d1", "d2"}
Paths == 1..NumPaths

NoPath == 0
NoStatus == 0
NoName == <<>>
NoFile == [exists |-> FALSE, members |-> <<>>, finalized |-> FALSE]
Free == "free"

\* multipart file headers a request can carry: Filename, the Size field and
\* the content that Open() delivers (data identifies the bytes, n counts them)
FileHeaders ==
  { [Filename |-> <<"a", ".", "t">>, Size |-> 1,
     content |-> [data |-> "x", n |-> 1]],
    [Filename |-> <<"a", ".", "z">>, Size |-> SizeLimit - 1,
     content |-> [data |-> "y", n |-> SizeLimit]] }

\* form.File["files"] of a request: up to MaxEntries headers, possibly none
Forms == UNION { [1..k -> FileHeaders] : k \in 0..MaxEntries }

(* ------------------------- pure functions ------------------------------ *)
RECURSIVE SumSizes(_)
\* totalSize of lines 104-107
SumSizes(fs) ==
  IF fs = <<>> THEN 0 ELSE fs[1].Size + SumSizes(Tail(fs))

RECURSIVE LastDot(_, _)
\* index of the final "." of s at or before position i, 0 if there is none
LastDot(s, i) ==
  IF i = 0 THEN 0
  ELSE IF s[i] = "." THEN i ELSE LastDot(s, i - 1)

\* filepath.Ext: the suffix beginning at the final dot, empty without a dot
Ext(s) ==
  IF LastDot(s, Len(s)) = 0 THEN <<>>
  ELSE SubSeq(s, LastDot(s, Len(s)), Len(s))

\* baseFilename of lines 174-180
BaseFilename(fs) ==
  IF Len(fs) = 1
  THEN SubSeq(fs[1].Filename, 1, Len(fs[1].Filename) - Len(Ext(fs[1].Filename)))
  ELSE <<"a", "r", "c", "h", "i", "v", "e">>

\* time.Now().Format("20060102_150405"): one token per second of the clock
Timestamp(t) ==
  <<(<<"0", "1", "2", "3", "4", "5", "6", "7", "8", "9">>)[t + 1]>>

\* zipFilename of line 182: "%s_%s.zip"
ZipFilename(fs, t) ==
  BaseFilename(fs) \o <<"_">> \o Timestamp(t) \o <<".", "z", "i", "p">>

\* the member zipWriter.Create + io.Copy add for one file header
Member(f) == [name |-> f.Filename, content |-> f.content]

\* the archive the build loop writes for a whole form
Archive(fs) == [i \in 1..Len(fs) |-> Member(fs[i])]

RECURSIVE EntryBytes(_)
\* bytes of entry content held by an archive
EntryBytes(ms) ==
  IF ms = <<>> THEN 0 ELSE ms[1].content.n + EntryBytes(Tail(ms))

\* every name a download request can ask for
RequestNames ==
  { ZipFilename(fs, t) : fs \in Forms \ {<<>>}, t \in 0..MaxClock }

(* ------------------------------ state ---------------------------------- *)
VARIABLES
  now,            \* wall clock: the latest second time.Now() has read
  storeMutex,     \* Free or the handler holding the lock
  tempFileStore,  \* map zipFilename -> tempFilePath (NoPath: key absent)
  disk,           \* scratch directory: path -> file
  up,             \* handleFileUpload goroutines, one per request
  dl,             \* handleDownload goroutines, one per request
  fn              \* the handleFilename goroutine

vars == <<now, storeMutex, tempFileStore, disk, up, dl, fn>>

\* a handleFileUpload goroutine before its request has arrived
\* (srcOpen: the entries whose source stream is open)
UpIdle == [pc |-> "idle", files |-> <<>>, i |-> 0, tempFile |-> NoPath,
           srcOpen |-> {}, zipFilename |-> NoName, status |-> NoStatus]

\* a handleDownload goroutine before its request has arrived
DlIdle == [pc |-> "idle", filename |-> NoName, tempPath |-> NoPath,
           status |-> NoStatus, body |-> <<>>]

\* the handleFilename goroutine before its request has arrived
\* (i: the loop index, html: the pieces of fileListHTML written so far)
FnIdle == [pc |-> "idle", files |-> <<>>, i |-> 0, html |-> <<>>,
           status |-> NoStatus]

Init ==
  /\ fn = FnIdle
  /\ now = 0
  /\ storeMutex = Free
  /\ tempFileStore = [n \in RequestNames |-> NoPath]
  /\ disk = [p \in Paths |-> NoFile]
  /\ up = [u \in Uploads |-> UpIdle]
  /\ dl = [d \in Downloads |-> DlIdle]

\* the keys of the map
Keys == { n \in RequestNames : tempFileStore[n] # NoPath }

(* ----------------------- handleFileUpload ------------------------------ *)
\* the map after tempFileStore[name] = path
Insert(store, name, path) == [store EXCEPT ![name] = path]

\* the handler returns with an error page: its locals die, the response
\* and the source streams it left open stay observable
UpFail(u, st, open) ==
  up' = [up EXCEPT ![u] = [UpIdle EXCEPT !.pc = "done", !.status = st,
                                         !.srcOpen = open]]

\* an error branch that returns without closing the entry's stream
CloseSrcForgotten(open, i) == open

\* src.Close() on the stream of entry i
CloseSrc(open, i) == open \ {i}

\* lines 90-94: c.MultipartForm() fails
UpFormError(u) ==
  /\ up[u].pc = "idle"
  /\ UpFail(u, StatusBadRequest, up[u].srcOpen)
  /\ UNCHANGED <<fn, now, storeMutex, tempFileStore, disk, dl>>

\* lines 96-99: no files in the form
UpNoFiles(u) ==
  /\ up[u].pc = "idle"
  /\ UpFail(u, StatusBadRequest, up[u].srcOpen)
  /\ UNCHANGED <<fn, now, storeMutex, tempFileStore, disk, dl>>

\* the size check applied to the first file only, not to the total
TooLargeFirstOnly(fs) == fs[1].Size > SizeLimit

\* the size check with >= in place of >
TooLargeAtLimit(fs) == SumSizes(fs) >= SizeLimit

\* the check of line 109
TooLarge(fs) == SumSizes(fs) > SizeLimit

\* lines 103-111: the declared sizes add up to more than the limit
UpTooLarge(u, fs) ==
  /\ up[u].pc = "idle"
  /\ fs # <<>>
  /\ TooLarge(fs)
  /\ up' = [up EXCEPT ![u] = [UpIdle EXCEPT !.pc = "done", !.files = fs,
                                         !.srcOpen = up[u].srcOpen,
                                         !.status = StatusBadRequest]]
  /\ UNCHANGED <<fn, now, storeMutex, tempFileStore, disk, dl>>

\* the name os.CreateTemp picks: one no existing file has (names are
\* interchangeable, the least free one stands for any of them)
FreshPath == CHOOSE p \in Paths :
               /\ ~disk[p].exists
               /\ \A q \in Paths : ~disk[q].exists => p <= q

\* lines 90-122: the form passes the checks, os.CreateTemp succeeds,
\* zip.NewWriter wraps the new file
UpCreateTemp(u, fs) ==
  /\ up[u].pc = "idle"
  /\ fs # <<>>
  /\ ~TooLarge(fs)
  /\ \E p \in Paths : ~disk[p].exists
  /\ disk' = [disk EXCEPT ![FreshPath] =
                [exists |-> TRUE, members |-> <<>>, finalized |-> FALSE]]
  /\ up' = [up EXCEPT ![u].pc = "open", ![u].files = fs, ![u].i = 1,
                      ![u].tempFile = FreshPath]
  /\ UNCHANGED <<fn, now, storeMutex, tempFileStore, dl>>

\* lines 90-118: the form passes the checks, os.CreateTemp fails
UpCreateTempFail(u, fs) ==
  /\ up[u].pc = "idle"
  /\ fs # <<>>
  /\ ~TooLarge(fs)
  /\ UpFail(u, StatusInternalServerError, up[u].srcOpen)
  /\ UNCHANGED <<fn, now, storeMutex, tempFileStore, disk, dl>>

\* a zip writer that is never closed: the central directory is not written
CloseZipForgotten(p) == disk

\* zipWriter.Close(): the central directory is written, nothing can be added
CloseZip(p) == [disk EXCEPT ![p].finalized = TRUE]

\* the scratch directory when the build gives up on the file at path p:
\* the error branches close the zip writer and leave the file where it is
AbandonBuild(p) == CloseZip(p)

\* line 129: file.Open() succeeds
UpOpenEntry(u) ==
  /\ up[u].pc = "open"
  /\ up' = [up EXCEPT ![u].pc = "entry",
                      ![u].srcOpen = up[u].srcOpen \cup {up[u].i}]
  /\ UNCHANGED <<fn, now, storeMutex, tempFileStore, disk, dl>>

\* lines 130-135: file.Open() fails
UpOpenEntryFail(u) ==
  /\ up[u].pc = "open"
  /\ disk' = AbandonBuild(up[u].tempFile)
  /\ UpFail(u, StatusInternalServerError, up[u].srcOpen)
  /\ UNCHANGED <<fn, now, storeMutex, tempFileStore, dl>>

\* lines 138-145: zipWriter.Create fails, src is closed
UpCreateEntryFail(u) ==
  /\ up[u].pc = "entry"
  /\ disk' = AbandonBuild(up[u].tempFile)
  /\ UpFail(u, StatusInternalServerError, CloseSrc(up[u].srcOpen, up[u].i))
  /\ UNCHANGED <<fn, now, storeMutex, tempFileStore, dl>>

\* the file after zipWriter.Create and io.Copy have written header f whole
CopyInto(file, f) == [file EXCEPT !.members = Append(file.members, Member(f))]

\* lines 138-157: zipWriter.Create and io.Copy succeed, src is closed,
\* the loop advances
UpCopy(u) ==
  /\ up[u].pc = "entry"
  /\ disk' = [disk EXCEPT ![up[u].tempFile] =
                CopyInto(disk[up[u].tempFile], up[u].files[up[u].i])]
  /\ up' = [up EXCEPT ![u].srcOpen = CloseSrc(up[u].srcOpen, up[u].i),
                      ![u].i = up[u].i + 1,
                      ![u].pc = IF up[u].i < Len(up[u].files)
                                THEN "open" ELSE "finalize"]
  /\ UNCHANGED <<fn, now, storeMutex, tempFileStore, dl>>

\* lines 148-154: io.Copy fails, src is closed
UpCopyFail(u) ==
  /\ up[u].pc = "entry"
  /\ disk' = AbandonBuild(up[u].tempFile)
  /\ UpFail(u, StatusInternalServerError, CloseSrc(up[u].srcOpen, up[u].i))
  /\ UNCHANGED <<fn, now, storeMutex, tempFileStore, dl>>

\* lines 160-163: zipWriter.Close() fails
UpFinalizeFail(u) ==
  /\ up[u].pc = "finalize"
  /\ UpFail(u, StatusInternalServerError, up[u].srcOpen)
  /\ UNCHANGED <<fn, now, storeMutex, tempFileStore, disk, dl>>

\* the record is stored before the rewind is known to have succeeded
UpSeekFailPublished(u) ==
  /\ up[u].pc = "finalize"
  /\ disk' = CloseZip(up[u].tempFile)
  /\ tempFileStore' =
       Insert(tempFileStore, ZipFilename(up[u].files, now), up[u].tempFile)
  /\ UpFail(u, StatusInternalServerError, up[u].srcOpen)
  /\ UNCHANGED <<fn, now, storeMutex, dl>>

\* lines 160-170: zipWriter.Close() succeeds, the rewind fails
UpSeekFail(u) ==
  /\ up[u].pc = "finalize"
  /\ disk' = CloseZip(up[u].tempFile)
  /\ UpFail(u, StatusInternalServerError, up[u].srcOpen)
  /\ UNCHANGED <<fn, now, storeMutex, tempFileStore, dl>>

\* lines 160-183: zipWriter.Close() and the rewind succeed, time.Now() reads
\* second t of the wall clock (not before any earlier reading), the
\* download name is derived from the form and t
UpFinalize(u, t) ==
  /\ up[u].pc = "finalize"
  /\ t >= now
  /\ now' = t
  /\ disk' = CloseZip(up[u].tempFile)
  /\ up' = [up EXCEPT ![u].pc = "lock",
                      ![u].zipFilename = ZipFilename(up[u].files, t)]
  /\ UNCHANGED <<fn, storeMutex, tempFileStore, dl>>

\* a lock that does not exclude: any handler enters at once
LockNoExclusion(h) == storeMutex' = h

\* storeMutex.Lock() by handler h: blocks until the mutex is free
Lock(h) ==
  /\ storeMutex = Free
  /\ storeMutex' = h

\* line 186
UpLock(u) ==
  /\ up[u].pc = "lock"
  /\ Lock(u)
  /\ up' = [up EXCEPT ![u].pc = "insert"]
  /\ UNCHANGED <<fn, now, tempFileStore, disk, dl>>

\* lines 187-188: the record is stored, the mutex released
UpInsert(u) ==
  /\ up[u].pc = "insert"
  /\ tempFileStore' = Insert(tempFileStore, up[u].zipFilename, up[u].tempFile)
  /\ storeMutex' = Free
  /\ up' = [up EXCEPT ![u].pc = "respond"]
  /\ UNCHANGED <<fn, now, disk, dl>>

\* lines 190-210: the success page with the download link is returned
UpRespond(u) ==
  /\ up[u].pc = "respond"
  /\ up' = [up EXCEPT ![u] = [UpIdle EXCEPT !.pc = "done",
                                         !.files = up[u].files,
                                         !.srcOpen = up[u].srcOpen,
                                         !.zipFilename = up[u].zipFilename,
                                         !.status = StatusOK]]
  /\ UNCHANGED <<fn, now, storeMutex, tempFileStore, disk, dl>>

(* ------------------------- handleDownload ------------------------------ *)
\* the record is deleted before the lookup, which then never finds it
DlMissAfterDelete(d, name) ==
  /\ dl[d].pc = "idle"
  /\ Lock(d)
  /\ tempFileStore' = [tempFileStore EXCEPT ![name] = NoPath]
  /\ dl' = [dl EXCEPT ![d].pc = "miss", ![d].filename = name]
  /\ UNCHANGED <<fn, now, disk, up>>

\* lines 215-221: a request for name takes the mutex and does not find the
\* name in the map
DlMiss(d, name) ==
  /\ dl[d].pc = "idle"
  /\ Lock(d)
  /\ tempFileStore[name] = NoPath
  /\ dl' = [dl EXCEPT ![d].pc = "miss", ![d].filename = name]
  /\ UNCHANGED <<fn, now, tempFileStore, disk, up>>

\* the 404 is answered with the mutex still held
DlNotFoundKeepsLock(d) ==
  /\ dl[d].pc = "miss"
  /\ dl' = [dl EXCEPT ![d] = [DlIdle EXCEPT !.pc = "done",
                                         !.status = StatusNotFound]]
  /\ UNCHANGED <<fn, now, storeMutex, tempFileStore, disk, up>>

\* lines 222-224: the mutex is released and 404 is answered; the handler's
\* locals die, the response names no file
DlNotFound(d) ==
  /\ dl[d].pc = "miss"
  /\ storeMutex' = Free
  /\ dl' = [dl EXCEPT ![d] = [DlIdle EXCEPT !.pc = "done",
                                         !.status = StatusNotFound]]
  /\ UNCHANGED <<fn, now, tempFileStore, disk, up>>

\* lines 215-221: a request for name takes the mutex and finds the name in
\* the map
DlFound(d, name) ==
  /\ dl[d].pc = "idle"
  /\ Lock(d)
  /\ tempFileStore[name] # NoPath
  /\ dl' = [dl EXCEPT ![d].pc = "delete", ![d].filename = name,
                      ![d].tempPath = tempFileStore[name]]
  /\ UNCHANGED <<fn, now, tempFileStore, disk, up>>

\* a claim that leaves the record in the map
DeleteNothing(store, name) == store

\* the map after delete(tempFileStore, name)
Delete(store, name) == [store EXCEPT ![name] = NoPath]

\* the record is removed, the mutex is kept for the os.Open that follows
DlDeleteKeepsLock(d) ==
  /\ dl[d].pc = "delete"
  /\ tempFileStore' = Delete(tempFileStore, dl[d].filename)
  /\ dl' = [dl EXCEPT ![d].pc = "open"]
  /\ UNCHANGED <<fn, now, storeMutex, disk, up>>

\* lines 228-229: the record is removed, the mutex released
DlDelete(d) ==
  /\ dl[d].pc = "delete"
  /\ tempFileStore' = Delete(tempFileStore, dl[d].filename)
  /\ storeMutex' = Free
  /\ dl' = [dl EXCEPT ![d].pc = "open"]
  /\ UNCHANGED <<fn, now, disk, up>>

\* os.Open succeeds and the cleanup runs at once instead of being deferred
DlOpenEager(d) ==
  /\ dl[d].pc = "open"
  /\ disk[dl[d].tempPath].exists
  /\ disk' = [disk EXCEPT ![dl[d].tempPath] = NoFile]
  /\ dl' = [dl EXCEPT ![d].pc = "stream"]
  /\ UNCHANGED <<fn, now, storeMutex, tempFileStore, up>>

\* line 234: os.Open succeeds
DlOpen(d) ==
  /\ dl[d].pc = "open"
  /\ disk[dl[d].tempPath].exists
  /\ dl' = [dl EXCEPT ![d].pc = "stream"]
  /\ UNCHANGED <<fn, now, storeMutex, tempFileStore, disk, up>>

\* the scratch directory when the handler returns after a failed os.Open
\* of path p: the deferred cleanup is not registered yet, nothing is removed
AfterOpenFail(p) == disk

\* lines 234-238: os.Open fails (no descriptor left, file unreadable)
DlOpenFail(d) ==
  /\ dl[d].pc = "open"
  /\ disk' = AfterOpenFail(dl[d].tempPath)
  /\ dl' = [dl EXCEPT ![d].pc = "done", ![d].tempPath = NoPath,
                      ![d].status = StatusInternalServerError]
  /\ UNCHANGED <<fn, now, storeMutex, tempFileStore, up>>

\* os.Remove(p)
Remove(p) == [disk EXCEPT ![p] = NoFile]

\* lines 241-252: the file is streamed to its end, then the deferred
\* function closes and removes it
DlStream(d) ==
  /\ dl[d].pc = "stream"
  /\ disk' = Remove(dl[d].tempPath)
  /\ dl' = [dl EXCEPT ![d].pc = "done", ![d].tempPath = NoPath,
                      ![d].status = StatusOK,
                      ![d].body = disk[dl[d].tempPath].members]
  /\ UNCHANGED <<fn, now, storeMutex, tempFileStore, up>>

\* lines 241-252: c.Stream returns an error before the end of the file
\* (the client went away), then the deferred function closes and removes it
DlStreamAbort(d) ==
  /\ dl[d].pc = "stream"
  /\ disk' = Remove(dl[d].tempPath)
  /\ dl' = [dl EXCEPT ![d].pc = "done", ![d].tempPath = NoPath,
                      ![d].status = StatusOK]
  /\ UNCHANGED <<fn, now, storeMutex, tempFileStore, up>>

(* ------------------------- specification ------------------------------- *)
Next ==
  \/ \E u \in Uploads : UpFormError(u)
  \/ \E u \in Uploads : UpNoFiles(u)
  \/ \E u \in Uploads, fs \in Forms : UpTooLarge(u, fs)
  \/ \E u \in Uploads, fs \in Forms : UpCreateTemp(u, fs)
  \/ \E u \in Uploads, fs \in Forms : UpCreateTempFail(u, fs)
  \/ \E u \in Uploads : UpOpenEntry(u)
  \/ \E u \in Uploads : UpOpenEntryFail(u)
  \/ \E u \in Uploads : UpCreateEntryFail(u)
  \/ \E u \in Uploads : UpCopy(u)
  \/ \E u \in Uploads : UpCopyFail(u)
  \/ \E u \in Uploads : UpFinalizeFail(u)
  \/ \E u \in Uploads : UpSeekFail(u)
  \/ \E u \in Uploads, t \in 0..MaxClock : UpFinalize(u, t)
  \/ \E u \in Uploads : UpLock(u)
  \/ \E u \in Uploads : UpInsert(u)
  \/ \E u \in Uploads : UpRespond(u)
  \/ \E d \in Downloads, name \in RequestNames : DlMiss(d, name)
  \/ \E d \in Downloads : DlNotFound(d)
  \/ \E d \in Downloads, name \in RequestNames : DlFound(d, name)
  \/ \E d \in Downloads : DlDelete(d)
  \/ \E d \in Downloads : DlOpen(d)
  \/ \E d \in Downloads : DlOpenFail(d)
  \/ \E d \in Downloads : DlStream(d)
  \/ \E d \in Downloads : DlStreamAbort(d)

Spec == Init /\ [][Next]_vars

\* the scheduling the mutex discipline relies on: a goroutine inside the
\* critical section is runnable and is run (weak fairness of the steps that
\* release the mutex); sync.Mutex hands the mutex to a goroutine that has
\* waited long (starvation mode), so a waiter that could take it again and
\* again does take it (strong fairness of Lock)
Fairness ==
  /\ \A u \in Uploads : SF_vars(UpLock(u)) /\ WF_vars(UpInsert(u))
  /\ \A d \in Downloads : WF_vars(DlNotFound(d)) /\ WF_vars(DlDelete(d))

\* the state in which the requests contend for the mutex under fair
\* scheduling: one download request, for a name the map does not hold, has
\* been answered with 404 before the others arrive
InitFair ==
  /\ fn = FnIdle
  /\ now = 0
  /\ storeMutex = Free
  /\ tempFileStore = [n \in RequestNames |-> NoPath]
  /\ disk = [p \in Paths |-> NoFile]
  /\ up = [u \in Uploads |-> UpIdle]
  /\ dl = [d \in Downloads |->
             IF d = "d1" THEN DlIdle
             ELSE [DlIdle EXCEPT !.pc = "done", !.status = StatusNotFound]]

SpecFair == InitFair /\ [][Next]_vars /\ Fairness

(* ------------------------- handleFilename ------------------------------ *)
\* the file names a form sent to handleFilename can carry: file k of a form
\* is named after a stem and k
Stems == {"a", "b"}
FnForms ==
  { [k \in 1..n |-> [stem |-> s, no |-> k]] : n \in 0..MaxFiles, s \in Stems }

\* the pieces fileListHTML is made of
Plain(text) == [kind |-> "plain", name |-> text, count |-> 0]
Strong(n) == [kind |-> "strong", name |-> "files selected:", count |-> n]
Li(name) == [kind |-> "li", name |-> name, count |-> 0]
More(n) == [kind |-> "more", name |-> "...and more", count |-> n]
EndUl == [kind |-> "endul", name |-> "", count |-> 0]

\* c.HTML(http.StatusOK, html)
FnRespond(html) ==
  fn' = [fn EXCEPT !.pc = "done", !.html = html, !.status = StatusOK]

\* lines 56-60: c.MultipartForm() fails
FnFormError ==
  /\ fn.pc = "idle"
  /\ FnRespond(<<Plain("No files selected")>>)
  /\ UNCHANGED <<now, storeMutex, tempFileStore, disk, up, dl>>

\* lines 62-65: no files in the form
FnNoFiles ==
  /\ fn.pc = "idle"
  /\ FnRespond(<<Plain("No files selected")>>)
  /\ UNCHANGED <<now, storeMutex, tempFileStore, disk, up, dl>>

\* lines 69-70 and 84: one file, its name is the whole answer
FnSingle(files) ==
  /\ fn.pc = "idle"
  /\ Len(files) = 1
  /\ fn' = [fn EXCEPT !.pc = "done", !.files = files,
                      !.html = <<Plain(files[1])>>, !.status = StatusOK]
  /\ UNCHANGED <<now, storeMutex, tempFileStore, disk, up, dl>>

\* lines 71-72: several files, the list is opened with their number
FnStart(files) ==
  /\ fn.pc = "idle"
  /\ Len(files) > 1
  /\ fn' = [fn EXCEPT !.pc = "loop", !.files = files, !.i = 0,
                      !.html = <<Strong(Len(files))>>]
  /\ UNCHANGED <<now, storeMutex, tempFileStore, disk, up, dl>>

\* the condition of line 75 for loop index i (counted from 0) and n files
Elide(i, n) == i >= 5 /\ n > 6

\* lines 75-78: the rest of the files is summed up in one item, the loop
\* is left
FnMore ==
  /\ fn.pc = "loop"
  /\ fn.i < Len(fn.files)
  /\ Elide(fn.i, Len(fn.files))
  /\ fn' = [fn EXCEPT !.pc = "close",
                      !.html = Append(fn.html, More(Len(fn.files) - 5))]
  /\ UNCHANGED <<now, storeMutex, tempFileStore, disk, up, dl>>

\* line 79: the file of index i is listed
FnItem ==
  /\ fn.pc = "loop"
  /\ fn.i < Len(fn.files)
  /\ ~Elide(fn.i, Len(fn.files))
  /\ fn' = [fn EXCEPT !.i = fn.i + 1,
                      !.html = Append(fn.html, Li(fn.files[fn.i + 1]))]
  /\ UNCHANGED <<now, storeMutex, tempFileStore, disk, up, dl>>

\* line 73: the range is exhausted
FnLoopEnd ==
  /\ fn.pc = "loop"
  /\ fn.i = Len(fn.files)
  /\ fn' = [fn EXCEPT !.pc = "close"]
  /\ UNCHANGED <<now, storeMutex, tempFileStore, disk, up, dl>>

\* lines 81-84: the list is closed and returned
FnClose ==
  /\ fn.pc = "close"
  /\ FnRespond(Append(fn.html, EndUl))
  /\ UNCHANGED <<now, storeMutex, tempFileStore, disk, up, dl>>

NextFilename ==
  \/ FnFormError
  \/ FnNoFiles
  \/ \E files \in FnForms : FnSingle(files)
  \/ \E files \in FnForms : FnStart(files)
  \/ FnMore
  \/ FnItem
  \/ FnLoopEnd
  \/ FnClose

\* handleFilename on its own: it shares no state with the other handlers
SpecFilename == Init /\ [][NextFilename]_vars

TypeOK ==
  /\ now \in 0..MaxClock
  /\ storeMutex \in {Free} \cup Uploads \cup Downloads
  /\ tempFileStore \in [RequestNames -> Paths \cup {NoPath}]

(* ------------------------------ claims --------------------------------- *)
\* handlers that have taken a record out of the map and not yet returned
Claiming == { d \in Downloads : dl[d].pc \in {"delete", "open", "stream"} }

\* C1: of any number of concurrent claims on a name, one observes the record
\* and goes on to open the file: no two download handlers that have found a
\* record and not yet returned hold the same record (the same scratch file).
C1_OneWinner ==
  \A d1 \in Claiming, d2 \in Claiming :
    d1 # d2 => dl[d1].tempPath # dl[d2].tempPath

\* two concurrent requests for one name: one has removed the record and is
\* about to open the file, the other has just missed the name
C1_Witness ==
  \E d1 \in Downloads, d2 \in Downloads :
    /\ dl[d1].pc = "open"
    /\ dl[d2].pc = "miss"
    /\ dl[d2].filename = dl[d1].filename

\* C2: when a handleDownload call that removed a record returns, the scratch
\* file the record pointed to no longer exists, after a successful stream and
\* after a failed os.Open alike.
C2_FileGoneAfterClaim ==
  [][\A d \in Downloads :
       (dl[d].pc \in {"open", "stream"} /\ dl'[d].pc = "done")
         => ~disk'[dl[d].tempPath].exists]_vars

\* the names download handlers have removed from the map
ClaimedNames ==
  { dl[d].filename : d \in { e \in Downloads :
       \/ dl[e].pc \in {"open", "stream"}
       \/ dl[e].pc = "done" /\ dl[e].status # StatusNotFound } }

\* C3: names are single-use: a name that has been claimed (whether the claim
\* then streamed the file or failed at open) is never in the map again, so
\* every later claim on it answers 404.
C3_SingleUse == \A n \in ClaimedNames : n \notin Keys

\* C4: publish inserts under a name that is not a key of the map at that
\* moment: an insert never replaces an existing record.
C4_InsertNeverReplaces ==
  [][\A u \in Uploads :
       (up[u].pc = "insert" /\ up'[u].pc = "respond")
         => tempFileStore[up[u].zipFilename] = NoPath]_vars

\* C5: a form whose declared sizes add up to more than the limit is answered
\* 400 in a step that creates no scratch file and leaves the map unchanged;
\* the handler never holds a scratch file.
C5_TooLargeRejectedFirst ==
  [][\A u \in Uploads :
       (up[u].pc = "idle" /\ up'[u].files # <<>>
          /\ SumSizes(up'[u].files) > SizeLimit)
         => /\ up'[u].pc = "done"
            /\ up'[u].status = StatusBadRequest
            /\ up'[u].tempFile = NoPath
            /\ disk' = disk
            /\ tempFileStore' = tempFileStore]_vars

\* a form over the limit has been rejected while another upload's scratch
\* file and record exist
C5_Witness ==
  \E u \in Uploads :
    /\ up[u].pc = "done"
    /\ up[u].status = StatusBadRequest
    /\ SumSizes(up[u].files) > SizeLimit
    /\ Keys # {}

C7_FailedStageLeavesRegistry ==
  [][\A u \in Uploads :
       (up[u].pc # "done" /\ up'[u].pc = "done" /\ up'[u].status # StatusOK)
         => /\ tempFileStore' = tempFileStore
            /\ \A n \in RequestNames :
                 up[u].tempFile # NoPath
                   => tempFileStore'[n] # up[u].tempFile]_vars

\* an upload has failed with an I/O error while the map holds a record
C7_Witness ==
  \E u \in Uploads :
    /\ up[u].pc = "done"
    /\ up[u].status = StatusInternalServerError
    /\ Keys # {}

\* C8: when the build fails after the scratch file has been created, the
\* file is deleted before the call returns.
C8_FailedBuildRemovesFile ==
  [][\A u \in Uploads :
       (up[u].pc \in {"open", "entry", "finalize"} /\ up'[u].pc = "done")
         => ~disk'[up[u].tempFile].exists]_vars

\* C9: a retrieve with the name a successful stage returned, streamed to the
\* end, yields the archive built from exactly the entries of that stage, in
\* input order.
C9_RoundTrip ==
  \A u \in Uploads, d \in Downloads :
    (/\ up[u].pc = "done" /\ up[u].status = StatusOK
     /\ dl[d].pc = "done" /\ dl[d].status = StatusOK
     /\ dl[d].body # <<>>
     /\ dl[d].filename = up[u].zipFilename)
      => dl[d].body = Archive(up[u].files)

\* C10: every name in the map refers to a scratch file that exists.
C10_RecordsPointToFiles ==
  \A n \in Keys : disk[tempFileStore[n]].exists

\* a record is in the map after a download has removed the file of another
C10_Witness ==
  /\ Keys # {}
  /\ \E d \in Downloads : dl[d].pc = "done" /\ dl[d].status = StatusOK

\* handlers that are creating, writing, opening, reading or about to delete a
\* scratch file
UploadsAtIO == { u \in Uploads : up[u].pc \in {"open", "entry", "finalize"} }
DownloadsAtIO == { d \in Downloads : dl[d].pc \in {"open", "stream"} }

\* C11: storeMutex is held only for the insert or the lookup-and-remove: the
\* holder of the mutex is an upload handler about to store its record or a
\* download handler between its lookup and its unlock, never a handler that
\* is creating, writing, opening, reading or deleting a scratch file.
C11_NoIOUnderLock ==
  /\ \A u \in Uploads : storeMutex = u => up[u].pc = "insert"
  /\ \A d \in Downloads : storeMutex = d => dl[d].pc \in {"miss", "delete"}
  /\ \A u \in UploadsAtIO : storeMutex # u
  /\ \A d \in DownloadsAtIO : storeMutex # d

\* a download handler holds the mutex while an upload is writing its archive
C11_Witness ==
  /\ \E d \in Downloads : storeMutex = d /\ dl[d].pc = "delete"
  /\ \E u \in Uploads : up[u].pc = "entry"

\* C12: a record enters the map only when its archive is finalized with every
\* entry written, and the name is returned only after the insert: no file a
\* handler is still building has a record, and a handler that has derived a
\* name but not yet inserted it has answered nothing.
C12_PublishAfterFinalize ==
  /\ \A n \in Keys : /\ disk[tempFileStore[n]].finalized
                     /\ disk[tempFileStore[n]].members # <<>>
  /\ \A u \in UploadsAtIO, n \in Keys : tempFileStore[n] # up[u].tempFile
  /\ \A u \in Uploads :
       up[u].pc \in {"lock", "insert"} => up[u].status = NoStatus
  /\ \A u \in Uploads :
       up[u].status = StatusOK => up[u].pc = "done"

\* a finalized archive is in the map while another upload is still building
C12_Witness ==
  /\ Keys # {}
  /\ \E u \in Uploads : up[u].pc = "finalize"

\* C13: during a build at most one entry source stream is open, the stream
\* of an entry is closed before the next entry is opened, and no stream is
\* open once the build loop is left, whether it succeeded or failed.
C13_OneSourceStream ==
  \A u \in Uploads :
    /\ Cardinality(up[u].srcOpen) <= 1
    /\ up[u].pc = "entry" => up[u].srcOpen = {up[u].i}
    /\ up[u].pc # "entry" => up[u].srcOpen = {}

\* the second entry's stream is open after the first has been copied, and
\* another upload has left its build loop with an error
C13_Witness ==
  \E u \in Uploads, v \in Uploads :
    /\ up[u].pc = "entry" /\ up[u].i = 2
    /\ up[v].pc = "done" /\ up[v].status = StatusInternalServerError

\* the download handlers that hold path p and have not returned
Holders(p) == { d \in Claiming : dl[d].tempPath = p }

\* C14: the storage of a claimed artifact is released at most once: whenever
\* a download handler runs its deferred os.Remove, the file is there and no
\* other handler holds the same path, so no second call will attempt it.
C14_RemovedOnce ==
  [][\A d \in Downloads :
       (dl[d].pc = "stream" /\ dl'[d].pc = "done")
         => /\ disk[dl[d].tempPath].exists
            /\ ~disk'[dl[d].tempPath].exists
            /\ Holders(dl[d].tempPath) = {d}]_vars

\* one download has streamed and removed its file, the other is streaming
\* the file of another record
C14_Witness ==
  \E d1 \in Downloads, d2 \in Downloads :
    /\ dl[d1].pc = "done" /\ dl[d1].status = StatusOK
    /\ dl[d2].pc = "stream"

\* C15: in a successful claim the scratch file is there for as long as the
\* stream is being read, whatever the other handlers do: it is removed only
\* by the step that ends the stream.
C15_FileThereWhileStreaming ==
  \A d \in Downloads :
    dl[d].pc = "stream"
      => /\ disk[dl[d].tempPath].exists
         /\ disk[dl[d].tempPath].finalized

\* a download is streaming while an upload writes its archive and the
\* other download holds the mutex
C15_Witness ==
  /\ \E d \in Downloads : dl[d].pc = "stream"
  /\ \E u \in Uploads : up[u].pc = "entry"
  /\ \E d \in Downloads : dl[d].pc = "miss"

\* C16: a form is turned away for its size only when the declared sizes add
\* up to more than the limit; a stage that gets through the build inserts
\* exactly one record, from the name it derived to the scratch file holding
\* the archive of its entries, and answers 200 with that same name.
C16_StageSucceeds ==
  [][\A u \in Uploads :
       /\ (up[u].pc = "idle" /\ up'[u].pc = "done" /\ up'[u].files # <<>>)
            => SumSizes(up'[u].files) > SizeLimit
       /\ (up[u].pc = "insert" /\ up'[u].pc = "respond")
            => /\ up[u].files # <<>>
               /\ SumSizes(up[u].files) <= SizeLimit
               /\ \E t \in 0..now :
                    up[u].zipFilename = ZipFilename(up[u].files, t)
               /\ disk[up[u].tempFile].members = Archive(up[u].files)
               /\ tempFileStore'[up[u].zipFilename] = up[u].tempFile
               /\ \A n \in RequestNames \ {up[u].zipFilename} :
                    tempFileStore'[n] = tempFileStore[n]
       /\ (up[u].pc = "respond" /\ up'[u].pc # "respond")
            => /\ up'[u].pc = "done"
               /\ up'[u].status = StatusOK
               /\ up'[u].zipFilename = up[u].zipFilename
               /\ up'[u].files = up[u].files]_vars

\* a stage whose declared sizes add up to exactly the limit has succeeded
C16_Witness ==
  \E u \in Uploads :
    /\ up[u].pc = "done"
    /\ up[u].status = StatusOK
    /\ SumSizes(up[u].files) = SizeLimit

\* C19: a claim that answers 404 changes nothing: neither the step that
\* misses the name nor the step that answers changes the map or the scratch
\* directory, and the handler never holds a path.
C19_NotFoundChangesNothing ==
  [][\A d \in Downloads :
       ((dl'[d].pc = "miss" \/ dl[d].pc = "miss") /\ dl'[d] # dl[d])
         => /\ tempFileStore' = tempFileStore
            /\ disk' = disk
            /\ dl'[d].tempPath = NoPath]_vars

\* a claim has been answered 404 while the map holds a record
C19_Witness ==
  /\ Keys # {}
  /\ \E d \in Downloads : dl[d].pc = "done" /\ dl[d].status = StatusNotFound

\* no handler is in flight
Quiescent ==
  /\ \A u \in Uploads : up[u].pc \in {"idle", "done"}
  /\ \A d \in Downloads : dl[d].pc \in {"idle", "done"}

\* C20: no scratch storage leaks: when no handler is in flight, each
\* existing scratch file is the location of exactly one record of the map.
C20_NoLeak ==
  Quiescent =>
    \A p \in Paths :
      disk[p].exists
        => Cardinality({ n \in Keys : tempFileStore[n] = p }) = 1

\* the files a rendered list names
Listed(html) == { k \in 1..Len(html) : html[k].kind = "li" }

\* C17: the list handleFilename renders for two or more files names at most
\* 5 of them, and when it names fewer files than were selected its last item
\* says that the number selected less 5 more were selected.
C17_AtMostFiveListed ==
  (fn.pc = "done" /\ Len(fn.files) >= 2)
    => /\ Cardinality(Listed(fn.html)) <= 5
       /\ Cardinality(Listed(fn.html)) < Len(fn.files)
            => fn.html[Len(fn.html) - 1] = More(Len(fn.files) - 5)

\* C18: the registry map is read and written by the handler that holds
\* storeMutex; a handler that holds the mutex releases it with its next step,
\* whether it found the name or not; under fair scheduling a held mutex
\* becomes free again and an upload waiting for the mutex gets it.
C18_MutexDiscipline ==
  /\ [][/\ tempFileStore' # tempFileStore
             => \/ \E u \in Uploads : storeMutex = u /\ up'[u] # up[u]
                \/ \E d \in Downloads : storeMutex = d /\ dl'[d] # dl[d]
        /\ \A d \in Downloads :
             (dl[d].pc = "idle" /\ dl'[d].pc # "idle") => storeMutex' = d
        /\ \A u \in Uploads :
             (storeMutex = u /\ up'[u] # up[u]) => storeMutex' = Free
        /\ \A d \in Downloads :
             (storeMutex = d /\ dl'[d] # dl[d]) => storeMutex' = Free]_vars
  /\ (storeMutex # Free) ~> (storeMutex = Free)
  /\ \A u \in Uploads : (up[u].pc = "lock") ~> (up[u].pc = "insert")

\* an upload waits at storeMutex.Lock() while a download that did not find its
\* name holds the mutex, and another upload has stored its record and
\* released the mutex
C18_Witness ==
  /\ \E u \in Uploads : up[u].pc = "lock"
  /\ \E d \in Downloads : storeMutex = d /\ dl[d].pc = "miss"
  /\ \E u \in Uploads : up[u].pc = "done" /\ up[u].status = StatusOK

====
